---------------------------- MODULE Spec2Model ----------------------------
(***************************************************************************)
(* Model of the cee-de-en static asset server (src/main.rs).               *)
(*                                                                         *)
(* The server accepts connections; make_service_fn builds, for every       *)
(* connection, a fresh processed_cache and a service_fn closure that owns  *)
(* it.  The closure parses the request path, looks the key up in its       *)
(* cache, on a miss reads the file (or substitutes a "Nope" message),      *)
(* minifies and brotli-compresses it, inserts the result and finally hands *)
(* the cached bytes to serve_content, which routes on the method.          *)
(*                                                                         *)
(* Byte strings are sequences of tokens; paths are sequences of one-       *)
(* character strings.  The disk is the environment: files appear, change   *)
(* and disappear between the steps of the handlers.                        *)
(***************************************************************************)
EXTENDS Naturals, Sequences, FiniteSets

(***************************************************************************)
(* Bounds of the model.                                                    *)
(***************************************************************************)
MaxConns  == 2   \* connections accepted over the whole run
MaxEvents == 3   \* requests received plus changes made to the disk

Conns == 1..MaxConns

(***************************************************************************)
(* Request paths (req.uri().path()).  The empty path is what the http      *)
(* crate reports for an authority-form target (CONNECT host:port).         *)
(***************************************************************************)
UriEmpty     == <<>>
UriJs        == <<"/", "a", ".", "j", "s">>
UriOther     == <<"/", "c", "j", "s">>
UriTraversal == <<"/", ".", ".", "/", "p">>
Uris         == {UriEmpty, UriJs, UriOther, UriTraversal}

Methods  == {"GET", "POST", "CONNECT"}

\* CONNECT carries an authority-form target, the other methods a path.
Requests == {r \in [method : Methods, uri : Uris] :
                (r.uri = UriEmpty) <=> (r.method = "CONNECT")}

(***************************************************************************)
(* Raw file contents: "x" is a byte the minifier keeps, "#" a byte of a    *)
(* comment, which the minifier drops (cfg.keep_comments = false).          *)
(***************************************************************************)
RawContents == {<<"#">>, <<"x", "#">>}

Ok(b)  == [ok |-> TRUE,  bytes |-> b]
Err    == [ok |-> FALSE, bytes |-> <<>>]

(***************************************************************************)
(* String and path helpers.                                                *)
(***************************************************************************)
\* str[1..] : Err stands for the panic of slicing past the end.
SliceFrom1(s) == IF Len(s) < 1 THEN Err ELSE Ok(SubSeq(s, 2, Len(s)))

\* str::ends_with
ends_with(s, suffix) ==
    /\ Len(suffix) <= Len(s)
    /\ SubSeq(s, Len(s) - Len(suffix) + 1, Len(s)) = suffix

\* PathBuf::from(&str): the path owns the string's bytes unchanged.
PathBufFrom(s) == [inner |-> s]

\* Path::to_string_lossy: every invalid unit becomes U+FFFD; the units of a
\* path made from a String are all valid.
ValidUnits == {"/", ".", "a", "c", "j", "p", "s"}
to_string_lossy(p) ==
    [i \in 1..Len(p.inner) |->
        IF p.inner[i] \in ValidUnits THEN p.inner[i] ELSE "U+FFFD"]

PathStrings == {SliceFrom1(u).bytes : u \in Uris \ {UriEmpty}}
Keys        == {to_string_lossy(PathBufFrom(s)) : s \in PathStrings}

\* The files the environment may create: every path a request can name.
Files == PathStrings

(***************************************************************************)
(* The transform pipeline.                                                 *)
(***************************************************************************)
\* the suffix test with the dots forgotten
IsMinifiableNoDot(path_string) ==
    \/ ends_with(path_string, <<"h", "t", "m", "l">>)
    \/ ends_with(path_string, <<"j", "s">>)
    \/ ends_with(path_string, <<"c", "s", "s">>)

\* line 84: the suffix test that decides whether the minifier runs
IsMinifiable(path_string) ==
    \/ ends_with(path_string, <<".", "h", "t", "m", "l">>)
    \/ ends_with(path_string, <<".", "j", "s">>)
    \/ ends_with(path_string, <<".", "c", "s", "s">>)

\* minify_html::minify with keep_comments = false
IsKept(t) == t # "#"
Minify(bytes) == SelectSeq(bytes, IsKept)

\* brotlic CompressorWriter: write_all + into_inner.  A deterministic,
\* injective encoding of its input.
Brotli(bytes) == <<"br">> \o bytes

\* line 73: the bytes substituted for a file that cannot be read
NopeMessage(path_string) ==
    <<"Nope, no ">> \o path_string \o <<" found here m8">>

\* serve_content's two header values and bodies
ContentEncodingBr   == "br"
ContentTypeJs       == "text/javascript"
NoHeader            == ""
NoSuchResource      == <<"No such resource">>
StatusOK            == 200
StatusNotFound      == 404

\* serve_content without the method match: every request is served
serve_content_any_method(method, content) ==
    [status           |-> StatusOK,
     content_encoding |-> ContentEncodingBr,
     content_type     |-> ContentTypeJs,
     body             |-> content]

\* lines 17-39: serve_content routes on the method alone
serve_content(method, content) ==
    IF method = "GET"
    THEN [status           |-> StatusOK,
          content_encoding |-> ContentEncodingBr,
          content_type     |-> ContentTypeJs,
          body             |-> content]
    ELSE [status           |-> StatusNotFound,
          content_encoding |-> NoHeader,
          content_type     |-> NoHeader,
          body             |-> NoSuchResource]

\* HashMap::new
EmptyCache == [k \in {} |-> <<>>]

\* a lookup that never finds the key: every request reloads and reinserts
CacheHitNever(cache, path_key) == FALSE

\* line 67: contains_key
CacheHit(cache, path_key) == path_key \in DOMAIN cache

\* an insert that replaces the whole map by the new entry
CacheInsertOnly(cache, path_key, value) == [k \in {path_key} |-> value]

\* an insert that is lost
CacheInsertDropped(cache, path_key, value) == cache

\* line 115: HashMap::insert
CacheInsert(cache, path_key, value) ==
    [k \in (DOMAIN cache) \cup {path_key} |->
        IF k = path_key THEN value ELSE cache[k]]

\* a lookup that reserves the key with an empty entry before the load
CacheWithPlaceholder(cache, path_key) ==
    IF path_key \in DOMAIN cache THEN cache
    ELSE [k \in (DOMAIN cache) \cup {path_key} |->
             IF k = path_key THEN <<>> ELSE cache[k]]

\* lines 66-74: the lookup and the load leave the cache as it is
CacheAfterLookup(cache, path_key) == cache

\* fs::read(path): the file's bytes, or an error when there is no such file
fs_read(dsk, path) == IF path.inner \in DOMAIN dsk THEN dsk[path.inner] ELSE Err

\* lines 70-74: the cached bytes on a hit, else the file or the Nope message
LoadFileContents(cache, dsk, path, path_key, path_string) ==
    IF CacheHit(cache, path_key)
    THEN cache[path_key]
    ELSE IF fs_read(dsk, path).ok
         THEN fs_read(dsk, path).bytes
         ELSE NopeMessage(path_string)

\* lines 81-89: minified stays empty unless the suffix test passes
MinifyStep(path_string, file_contents) ==
    IF IsMinifiable(path_string) THEN Minify(file_contents) ELSE <<>>

\* lines 102-108: what write_all hands to the compressor
CompressorInput(minified, file_contents) ==
    IF Len(minified) > 0 THEN minified ELSE file_contents

\* lines 105 and 109: the numbers the println! reports, in order
LogLine(minified, file_contents, compressed_file) ==
    IF Len(minified) > 0
    THEN <<Len(file_contents), Len(minified), Len(compressed_file)>>
    ELSE <<Len(minified), Len(compressed_file)>>

\* serving the handler's file_contents instead of the cache entry
ServedFileContents(cache, path, file_contents) == Ok(file_contents)

\* line 119: the bytes handed to serve_content, Err when the lookup fails
ServedContent(cache, path, file_contents) ==
    IF to_string_lossy(path) \in DOMAIN cache
    THEN Ok(cache[to_string_lossy(path)])
    ELSE Err

(***************************************************************************)
(* State.                                                                  *)
(***************************************************************************)
VARIABLES
    disk,            \* the environment's files: Files -> Ok(bytes) or Err
    conn_state,      \* per connection: "closed" (not yet accepted), "open", "panicked"
    processed_cache, \* per connection: the HashMap of line 53
    pc,              \* per connection: position of the handler in flight
    frame,           \* per connection: the handler's locals
    last,            \* per connection: the last request answered and its response
    events,          \* requests received and disk changes so far
    transformCount,  \* history: per key, completed minify+compress runs
    transformsOn,    \* history: the same, per connection and key
    everInserted,    \* history: keys some request has inserted into some cache
    insertedFrom,    \* history: per connection and entry, what fs::read gave
    assetState,      \* history: per key, "unseen", "stable" or "changed"
    firstBody        \* history: per key, the body of the first GET response

vars == <<disk, conn_state, processed_cache, pc, frame, last, events,
          transformCount, transformsOn, everInserted, insertedFrom,
          assetState, firstBody>>

NoRequest == [method |-> "", uri |-> <<>>]

\* The handler's locals, by their names in the closure.  Three fields are
\* history: raw is what the disk held for path when the request was received
\* (fs::read's result on a miss), minify_invoked whether minify_html::minify
\* was called, compressor_in the slice given to write_all.
NoFrame == [req             |-> NoRequest,
            path_string     |-> <<>>,
            path            |-> PathBufFrom(<<>>),
            path_key        |-> <<>>,
            cache_hit       |-> FALSE,
            file_contents   |-> <<>>,
            raw             |-> Err,
            minified        |-> <<>>,
            minify_invoked  |-> FALSE,
            compressor_in   |-> <<>>,
            compressed_file |-> <<>>,
            log             |-> <<>>]

NoLast == [answered |-> FALSE,
           frame    |-> NoFrame,
           response |-> [status |-> 0, content_encoding |-> NoHeader,
                         content_type |-> NoHeader, body |-> <<>>]]

\* The serving root when the server starts.
InitialDisk ==
    [f \in Files |->
        IF f = SliceFrom1(UriJs).bytes    THEN Ok(<<"x", "#">>)
        ELSE IF f = SliceFrom1(UriTraversal).bytes THEN Ok(<<"#">>)
        ELSE Err]

Init ==
    /\ disk = InitialDisk
    /\ conn_state = [c \in Conns |-> "closed"]
    /\ processed_cache = [c \in Conns |-> EmptyCache]
    /\ pc = [c \in Conns |-> "idle"]
    /\ frame = [c \in Conns |-> NoFrame]
    /\ last = [c \in Conns |-> NoLast]
    /\ events = 0
    /\ transformCount = [k \in Keys |-> 0]
    /\ transformsOn = [c \in Conns |-> [k \in Keys |-> 0]]
    /\ everInserted = {}
    /\ insertedFrom = [c \in Conns |-> EmptyCache]
    /\ assetState = [k \in Keys |-> "unseen"]
    /\ firstBody = [k \in Keys |-> Err]

(***************************************************************************)
(* The connection task ends in a panic: the closure and the cache it owns  *)
(* are dropped and no response is written.  f is what is remembered of the *)
(* handler that panicked.                                                  *)
(***************************************************************************)
Panicked(c, f) ==
    /\ conn_state' = [conn_state EXCEPT ![c] = "panicked"]
    /\ processed_cache' = [processed_cache EXCEPT ![c] = EmptyCache]
    /\ insertedFrom' = [insertedFrom EXCEPT ![c] = EmptyCache]
    /\ pc' = [pc EXCEPT ![c] = "idle"]
    /\ frame' = [frame EXCEPT ![c] = f]
    /\ last' = [last EXCEPT ![c] = NoLast]

(***************************************************************************)
(* lines 51-53: a connection is accepted; make_service_fn's closure builds *)
(* a new, empty processed_cache for it.  Connections are numbered in the   *)
(* order they are accepted; a connection's cache lives as long as the      *)
(* connection and is never seen by another one.                            *)
(***************************************************************************)
Accept(c) ==
    /\ conn_state[c] = "closed"
    /\ \A d \in Conns : d < c => conn_state[d] # "closed"
    /\ conn_state' = [conn_state EXCEPT ![c] = "open"]
    /\ processed_cache' = [processed_cache EXCEPT ![c] = EmptyCache]
    /\ insertedFrom' = [insertedFrom EXCEPT ![c] = EmptyCache]
    /\ last' = [last EXCEPT ![c] = NoLast]
    /\ UNCHANGED <<disk, pc, frame, events, transformCount, transformsOn,
                   everInserted, assetState, firstBody>>

(***************************************************************************)
(* lines 57-74: the closure is called with a request.  It slices the       *)
(* leading byte off the path (a panic when the path is empty), derives     *)
(* path and path_key, tests the cache and loads file_contents.             *)
(***************************************************************************)
Receive(c, r) ==
    /\ conn_state[c] = "open"
    /\ pc[c] = "idle"
    /\ events < MaxEvents
    /\ events' = events + 1
    /\ IF ~SliceFrom1(r.uri).ok
       THEN /\ Panicked(c, NoFrame)
            /\ UNCHANGED assetState
       ELSE LET path_string == SliceFrom1(r.uri).bytes
                path        == PathBufFrom(path_string)
                path_key    == to_string_lossy(path)
                cache       == processed_cache[c]
            IN  /\ frame' = [frame EXCEPT ![c] =
                       [NoFrame EXCEPT
                          !.req           = r,
                          !.path_string   = path_string,
                          !.path          = path,
                          !.path_key      = path_key,
                          !.cache_hit     = CacheHit(cache, path_key),
                          !.file_contents = LoadFileContents(cache, disk, path,
                                                             path_key, path_string),
                          !.raw           = fs_read(disk, path)]]
                /\ pc' = [pc EXCEPT ![c] = "loaded"]
                /\ last' = [last EXCEPT ![c] = NoLast]
                /\ assetState' = [assetState EXCEPT ![path_key] =
                                     IF @ = "unseen" THEN "stable" ELSE @]
                /\ processed_cache' = [processed_cache EXCEPT ![c] =
                                          CacheAfterLookup(@, path_key)]
                /\ UNCHANGED <<conn_state, insertedFrom>>
    /\ UNCHANGED <<disk, transformCount, transformsOn, everInserted,
                   firstBody>>

(***************************************************************************)
(* lines 93-108, on a miss: the encoder build, write_all or into_inner     *)
(* returns an error and the unwrap panics.                                 *)
(***************************************************************************)
TransformFails(c) ==
    /\ conn_state[c] = "open"
    /\ pc[c] = "loaded"
    /\ ~frame[c].cache_hit
    /\ Panicked(c, [NoFrame EXCEPT !.path_key = frame[c].path_key])
    /\ UNCHANGED <<disk, events, transformCount, transformsOn, everInserted,
                   assetState, firstBody>>

\* lines 79-110: the handler's locals after minify, compress and println!
Transformed(f) ==
    LET minified   == MinifyStep(f.path_string, f.file_contents)
        input      == CompressorInput(minified, f.file_contents)
        compressed == Brotli(input)
    IN  [f EXCEPT
           !.minified        = minified,
           !.minify_invoked  = IsMinifiable(f.path_string),
           !.compressor_in   = input,
           !.compressed_file = compressed,
           !.log             = LogLine(minified, f.file_contents, compressed)]

(***************************************************************************)
(* lines 76-119, the rest of the handler, which touches nothing but the    *)
(* connection's own cache.  On a miss: minify, compress, print the sizes   *)
(* and insert the compressed bytes under path_key.  Then the entry is      *)
(* looked up again (a panic when it is absent) and serve_content builds    *)
(* the response.                                                           *)
(***************************************************************************)
Respond(c) ==
    /\ conn_state[c] = "open"
    /\ pc[c] = "loaded"
    /\ LET f       == IF frame[c].cache_hit THEN frame[c]
                      ELSE Transformed(frame[c])
           cache   == IF f.cache_hit
                      THEN processed_cache[c]
                      ELSE CacheInsert(processed_cache[c], f.path_key,
                                       f.compressed_file)
           content == ServedContent(cache, f.path, f.file_contents)
       IN  /\ transformCount' =
                  IF f.cache_hit THEN transformCount
                  ELSE [transformCount EXCEPT ![f.path_key] = @ + 1]
           /\ transformsOn' =
                  IF f.cache_hit THEN transformsOn
                  ELSE [transformsOn EXCEPT ![c][f.path_key] = @ + 1]
           /\ IF ~content.ok
              THEN /\ Panicked(c, NoFrame)
                   /\ UNCHANGED <<everInserted, firstBody>>
              ELSE LET response == serve_content(f.req.method, content.bytes)
                   IN  /\ processed_cache' =
                              [processed_cache EXCEPT ![c] = cache]
                       /\ insertedFrom' = [insertedFrom EXCEPT ![c] =
                              IF f.cache_hit THEN @
                              ELSE CacheInsert(@, f.path_key, f.raw)]
                       /\ everInserted' =
                              IF f.cache_hit THEN everInserted
                              ELSE everInserted \cup {f.path_key}
                       /\ last' = [last EXCEPT ![c] =
                              [answered |-> TRUE, frame |-> f,
                               response |-> response]]
                       /\ firstBody' =
                              IF /\ f.req.method = "GET"
                                 /\ ~firstBody[f.path_key].ok
                              THEN [firstBody EXCEPT ![f.path_key] =
                                       Ok(response.body)]
                              ELSE firstBody
                       /\ pc' = [pc EXCEPT ![c] = "idle"]
                       /\ frame' = [frame EXCEPT ![c] = NoFrame]
                       /\ UNCHANGED conn_state
    /\ UNCHANGED <<disk, events, assetState>>

(***************************************************************************)
(* The environment: a file is created or rewritten, or removed.            *)
(***************************************************************************)
DiskChanged(f) ==
    /\ events < MaxEvents
    /\ events' = events + 1
    /\ assetState' = [k \in Keys |->
           IF k = to_string_lossy(PathBufFrom(f)) /\ assetState[k] = "stable"
           THEN "changed" ELSE assetState[k]]
    /\ UNCHANGED <<conn_state, processed_cache, pc, frame, last,
                   transformCount, transformsOn, everInserted, insertedFrom,
                   firstBody>>

WriteFile(f, b) ==
    /\ disk[f] # Ok(b)
    /\ disk' = [disk EXCEPT ![f] = Ok(b)]
    /\ DiskChanged(f)

RemoveFile(f) ==
    /\ disk[f].ok
    /\ disk' = [disk EXCEPT ![f] = Err]
    /\ DiskChanged(f)

Next ==
    \/ \E c \in Conns : Accept(c)
    \/ \E c \in Conns, r \in Requests : Receive(c, r)
    \/ \E c \in Conns : TransformFails(c)
    \/ \E c \in Conns : Respond(c)
    \/ \E f \in Files, b \in RawContents : WriteFile(f, b)
    \/ \E f \in Files : RemoveFile(f)

Spec == Init /\ [][Next]_vars

(***************************************************************************)
(* Vocabulary of the properties.                                           *)
(***************************************************************************)
\* The Content Category of a path, by its suffix.
CategoryOf(path_string) ==
    IF ends_with(path_string, <<".", "h", "t", "m", "l">>) THEN "html"
    ELSE IF ends_with(path_string, <<".", "j", "s">>) THEN "javascript"
    ELSE IF ends_with(path_string, <<".", "c", "s", "s">>) THEN "css"
    ELSE "other"

\* The content-type a category calls for.
ContentTypeOf(category) ==
    IF category = "html" THEN "text/html"
    ELSE IF category = "javascript" THEN "text/javascript"
    ELSE IF category = "css" THEN "text/css"
    ELSE "application/octet-stream"

TypeOK ==
    /\ disk \in [Files -> {Err} \cup {Ok(b) : b \in RawContents}]
    /\ conn_state \in [Conns -> {"closed", "open", "panicked"}]
    /\ pc \in [Conns -> {"idle", "loaded"}]
    /\ events \in 0..MaxEvents
    /\ transformCount \in [Keys -> 0..MaxEvents]
    /\ everInserted \subseteq Keys
    /\ assetState \in [Keys -> {"unseen", "stable", "changed"}]
    /\ \A c \in Conns :
          /\ DOMAIN processed_cache[c] \subseteq Keys
          /\ DOMAIN insertedFrom[c] = DOMAIN processed_cache[c]
          /\ pc[c] = "loaded" => conn_state[c] = "open"

\* The request last answered on c, once answered.
Answered(c)  == last[c].answered
AnsweredGet(c) == last[c].answered /\ last[c].frame.req.method = "GET"

(***************************************************************************)
(* C1  Single-flight: over the whole run, on all connections together, the *)
(* minify+compress transform is executed at most once for every key.       *)
(* The per-connection caches break it: two connections that both request   *)
(* an uncached key both run the transform.                                 *)
(***************************************************************************)
C1_SingleFlight == \A k \in Keys : transformCount[k] <= 1

(***************************************************************************)
(* C2  Process-wide cache: once some request has inserted an entry for a   *)
(* key, every later request for that key, on any connection, is a cache    *)
(* hit.  A request on another connection misses.                           *)
(***************************************************************************)
C2_ProcessWideCache ==
    \A c \in Conns :
        (pc[c] = "loaded" /\ frame[c].path_key \in everInserted)
            => frame[c].cache_hit

(***************************************************************************)
(* C3  404 behaviour: a GET whose file does not exist is answered with     *)
(* status 404 and leaves no entry for its key in the cache.  The code      *)
(* answers 200 with the compressed "Nope" message and caches it.           *)
(***************************************************************************)
C3_MissingIs404 ==
    \A c \in Conns :
        (AnsweredGet(c) /\ ~last[c].frame.cache_hit /\ ~last[c].frame.raw.ok)
            => /\ last[c].response.status = StatusNotFound
               /\ last[c].frame.path_key \notin DOMAIN processed_cache[c]

(***************************************************************************)
(* C4  Not-found is not cached: a GET received while the file exists is    *)
(* never answered from an entry that an earlier request, which found no    *)
(* file, left behind.  The code caches the "Nope" message and serves it    *)
(* after the file has been created.                                        *)
(***************************************************************************)
C4_NotFoundNotCached ==
    \A c \in Conns :
        (AnsweredGet(c) /\ last[c].frame.raw.ok)
            => ~(/\ last[c].frame.cache_hit
                 /\ ~insertedFrom[c][last[c].frame.path_key].ok)

(***************************************************************************)
(* C5  Method routing: every response has status 200 exactly when the      *)
(* request's method is GET, and status 404 for every other method,         *)
(* whatever the path and whether it was cached, existing or missing.       *)
(***************************************************************************)
C5_MethodRouting ==
    \A c \in Conns :
        Answered(c) =>
            /\ (last[c].response.status = StatusOK)
                   <=> (last[c].frame.req.method = "GET")
            /\ (last[c].frame.req.method # "GET")
                   => (last[c].response.status = StatusNotFound)

\* a POST for a path already in the cache has been answered with 404
C5_Witness ==
    \E c \in Conns :
        /\ Answered(c)
        /\ last[c].frame.req.method = "POST"
        /\ last[c].frame.cache_hit
        /\ last[c].response.status = StatusNotFound

(***************************************************************************)
(* C6  Idempotence: while the raw asset of a key has not changed since the *)
(* key was first requested, every GET response for the key, on any         *)
(* connection, on the miss path or the hit path, has the body of the first *)
(* GET response for that key.                                              *)
(***************************************************************************)
C6_Idempotence ==
    \A c \in Conns :
        (AnsweredGet(c) /\ assetState[last[c].frame.path_key] = "stable")
            => /\ firstBody[last[c].frame.path_key].ok
               /\ last[c].response.body = firstBody[last[c].frame.path_key].bytes

\* a GET served from the cache for an unchanged asset, after the miss that
\* computed the entry
C6_Witness ==
    \E c \in Conns :
        /\ AnsweredGet(c)
        /\ last[c].frame.cache_hit
        /\ assetState[last[c].frame.path_key] = "stable"
        /\ transformCount[last[c].frame.path_key] >= 1

(***************************************************************************)
(* C7  Immutable after insert, no staleness detection: while a connection  *)
(* lives, no step removes or overwrites an entry of its cache, and every   *)
(* entry is the pipeline's output for what was loaded when it was          *)
(* inserted, whatever the disk holds now.                                  *)
(***************************************************************************)
LoadedAtInsertion(c, k) ==
    IF insertedFrom[c][k].ok THEN insertedFrom[c][k].bytes ELSE NopeMessage(k)

C7_Step ==
    \A c \in Conns :
        /\ \A k \in DOMAIN processed_cache[c] :
              conn_state'[c] = "open" =>
                  /\ k \in DOMAIN processed_cache'[c]
                  /\ processed_cache'[c][k] = processed_cache[c][k]
                  /\ insertedFrom'[c][k] = insertedFrom[c][k]
        /\ \A k \in DOMAIN processed_cache'[c] :
              k \notin DOMAIN processed_cache[c] =>
                  /\ insertedFrom'[c][k] = frame[c].raw
                  /\ processed_cache'[c][k] =
                         Brotli(CompressorInput(
                             MinifyStep(k, LoadedAtInsertion(c, k)'),
                             LoadedAtInsertion(c, k)'))

C7_ImmutableAfterInsert == [][C7_Step]_vars

\* a request is served from an entry whose file has changed since insertion
C7_Witness ==
    \E c \in Conns :
        /\ Answered(c)
        /\ last[c].frame.cache_hit
        /\ insertedFrom[c][last[c].frame.path_key].ok
        /\ last[c].frame.raw # insertedFrom[c][last[c].frame.path_key]

(***************************************************************************)
(* C8  Passthrough: for a path of category other the minifier is not       *)
(* invoked and the compressor is handed exactly the raw bytes loaded.      *)
(***************************************************************************)
C8_Passthrough ==
    \A c \in Conns :
        (/\ Answered(c)
         /\ ~last[c].frame.cache_hit
         /\ CategoryOf(last[c].frame.path_string) = "other")
            => /\ ~last[c].frame.minify_invoked
               /\ last[c].frame.compressor_in = last[c].frame.file_contents

\* a miss on an existing file of category other whose bytes the minifier
\* would have changed
C8_Witness ==
    \E c \in Conns :
        /\ Answered(c)
        /\ ~last[c].frame.cache_hit
        /\ CategoryOf(last[c].frame.path_string) = "other"
        /\ last[c].frame.raw.ok
        /\ Minify(last[c].frame.file_contents) # last[c].frame.file_contents

(***************************************************************************)
(* C9  Success headers: every 200 response names the compression scheme    *)
(* in content-encoding, carries the content-type of the path's category    *)
(* (octet-stream for other) and the key's processed bytes as its body.     *)
(* The code sends text/javascript for every path.                          *)
(***************************************************************************)
C9_SuccessHeaders ==
    \A c \in Conns :
        (Answered(c) /\ last[c].response.status = StatusOK)
            => /\ last[c].response.content_encoding = ContentEncodingBr
               /\ last[c].response.content_type =
                      ContentTypeOf(CategoryOf(last[c].frame.path_string))
               /\ last[c].response.body =
                      processed_cache[c][last[c].frame.path_key]

(***************************************************************************)
(* C10  No failure ends the serving task: no connection task ever          *)
(* panics.  The code panics on an empty request path and on every          *)
(* compressor error.                                                       *)
(***************************************************************************)
C10_NoPanic == \A c \in Conns : conn_state[c] # "panicked"

(***************************************************************************)
(* Whether a relative path leaves the directory it starts in: walking its  *)
(* segments, a ".." is met at depth 0.                                     *)
(***************************************************************************)
RECURSIVE EscapesFrom(_, _, _, _)
EscapesFrom(s, i, seg, depth) ==
    IF i > Len(s)
    THEN seg = <<".", ".">> /\ depth = 0
    ELSE IF s[i] # "/"
    THEN EscapesFrom(s, i + 1, Append(seg, s[i]), depth)
    ELSE IF seg = <<".", ".">>
    THEN depth = 0 \/ EscapesFrom(s, i + 1, <<>>, depth - 1)
    ELSE IF seg = <<>> \/ seg = <<".">>
    THEN EscapesFrom(s, i + 1, <<>>, depth)
    ELSE EscapesFrom(s, i + 1, <<>>, depth + 1)

ResolvesOutsideRoot(path_string) == EscapesFrom(path_string, 1, <<>>, 0)

(***************************************************************************)
(* C11  Traversal rejection: for a request path that resolves outside the  *)
(* serving root the loader is never asked to read, and the request ends in *)
(* a 404 with nothing cached for its key.  The code hands the path to      *)
(* fs::read unchecked, then caches and serves what it read.                *)
(***************************************************************************)
C11_TraversalRejected ==
    \A c \in Conns :
        /\ (pc[c] = "loaded" /\ ResolvesOutsideRoot(frame[c].path_string))
               => frame[c].cache_hit
        /\ (Answered(c) /\ ResolvesOutsideRoot(last[c].frame.path_string))
               => /\ last[c].response.status = StatusNotFound
                  /\ last[c].frame.path_key \notin DOMAIN processed_cache[c]

(***************************************************************************)
(* C12  Isolation: whenever a transform for an uncached key is in progress *)
(* and another key is cached, a request for the cached key can be taken    *)
(* and served from the cache at once.  In the code a key is cached only in *)
(* the cache of the connection that requested it, and that connection's    *)
(* closure runs one handler at a time: the lookup has to wait for the      *)
(* transform.                                                              *)
(***************************************************************************)
TransformInProgress(c) == pc[c] = "loaded" /\ ~frame[c].cache_hit

CanServeFromCache(c, k) ==
    /\ conn_state[c] = "open"
    /\ pc[c] = "idle"
    /\ k \in DOMAIN processed_cache[c]

C12_Isolation ==
    \A a \in Conns, k \in Keys :
        (/\ TransformInProgress(a)
         /\ k # frame[a].path_key
         /\ \E b \in Conns : k \in DOMAIN processed_cache[b])
            => \E b \in Conns : CanServeFromCache(b, k)

(***************************************************************************)
(* C13  No poisoning by a faulted computation: while a load/transform is   *)
(* in progress its key has no entry in the cache; every entry a cache      *)
(* holds is the complete pipeline output for what was loaded; a connection *)
(* whose handler panicked keeps no entry; and a request for the key of a   *)
(* faulted computation that later misses on another connection runs the    *)
(* whole computation and is answered from its result.                      *)
(***************************************************************************)
Faulted(c, k) == conn_state[c] = "panicked" /\ frame[c].path_key = k

C13_NoPoisoning ==
    \A c \in Conns :
        /\ TransformInProgress(c)
               => frame[c].path_key \notin DOMAIN processed_cache[c]
        /\ conn_state[c] = "panicked" => processed_cache[c] = EmptyCache
        /\ \A k \in DOMAIN processed_cache[c] :
               processed_cache[c][k] =
                   Brotli(CompressorInput(
                       MinifyStep(k, LoadedAtInsertion(c, k)),
                       LoadedAtInsertion(c, k)))
        /\ \A d \in Conns :
               (/\ Answered(d)
                /\ ~last[d].frame.cache_hit
                /\ Faulted(c, last[d].frame.path_key))
                   => /\ last[d].frame.path_key \in DOMAIN processed_cache[d]
                      /\ processed_cache[d][last[d].frame.path_key]
                             = last[d].frame.compressed_file
                      /\ last[d].frame.req.method = "GET"
                             => /\ last[d].response.status = StatusOK
                                /\ last[d].response.body
                                       = last[d].frame.compressed_file

\* the transform of a key panicked on one connection, and a GET for the same
\* key has been computed and served on another
C13_Witness ==
    \E c, d \in Conns :
        /\ Answered(d)
        /\ last[d].frame.req.method = "GET"
        /\ ~last[d].frame.cache_hit
        /\ last[d].frame.path_key \in Keys
        /\ Faulted(c, last[d].frame.path_key)
        /\ last[d].response.status = StatusOK

(***************************************************************************)
(* C14  Pipeline composition: on a miss for a path ending in .html, .js or *)
(* .css the compressor is handed the minifier's output, and the entry      *)
(* stored and served is compress(minify(raw)), also when the minifier's    *)
(* output is empty.  The code tests minified.len() > 0 and compresses the  *)
(* raw bytes when the minifier returned nothing.                           *)
(***************************************************************************)
C14_CompressesMinified ==
    \A c \in Conns :
        (/\ Answered(c)
         /\ ~last[c].frame.cache_hit
         /\ CategoryOf(last[c].frame.path_string) # "other")
            => /\ last[c].frame.compressor_in
                      = Minify(last[c].frame.file_contents)
               /\ processed_cache[c][last[c].frame.path_key]
                      = Brotli(Minify(last[c].frame.file_contents))

(***************************************************************************)
(* C15  Observability: on every miss the first number reported is the      *)
(* length of the raw bytes loaded and the last number the length of the    *)
(* bytes stored.  When minified is empty the code prints minified.len()    *)
(* as the original size.                                                   *)
(***************************************************************************)
C15_ReportsSizes ==
    \A c \in Conns :
        (Answered(c) /\ ~last[c].frame.cache_hit)
            => /\ Len(last[c].frame.log) >= 2
               /\ last[c].frame.log[1] = Len(last[c].frame.file_contents)
               /\ last[c].frame.log[Len(last[c].frame.log)]
                      = Len(processed_cache[c][last[c].frame.path_key])

(***************************************************************************)
(* C16  Non-GET requests leave the cache alone: a request with another     *)
(* method adds no entry for its path and runs neither the loader nor the   *)
(* minifier nor the compressor.  The code routes on the method only in     *)
(* serve_content, after the load, the transform and the insert.            *)
(***************************************************************************)
C16_NonGetNoEffect ==
    \A c \in Conns :
        (Answered(c) /\ last[c].frame.req.method # "GET")
            => /\ last[c].frame.cache_hit \/ last[c].frame.file_contents = <<>>
               /\ ~last[c].frame.minify_invoked
               /\ last[c].frame.compressed_file = <<>>
               /\ last[c].frame.path_key \in DOMAIN processed_cache[c]
                      => last[c].frame.cache_hit

(***************************************************************************)
(* C17  Per-connection at-most-once: a connection has at most one handler  *)
(* in flight, and over all the requests it carries it runs the transform   *)
(* at most once for every key: exactly once for the keys its cache holds,  *)
(* never for the others.                                                   *)
(***************************************************************************)
C17_AtMostOncePerConnection ==
    \A c \in Conns, k \in Keys :
        /\ transformsOn[c][k] <= 1
        /\ conn_state[c] = "open" =>
               (transformsOn[c][k] = 1 <=> k \in DOMAIN processed_cache[c])

\* a connection has served a key from its cache again after computing it,
\* although the file has changed in between
C17_Witness ==
    \E c \in Conns :
        /\ Answered(c)
        /\ last[c].frame.cache_hit
        /\ transformsOn[c][last[c].frame.path_key] = 1
        /\ last[c].frame.raw # insertedFrom[c][last[c].frame.path_key]

(***************************************************************************)
(* C18  The final lookup succeeds: whenever a handler is about to serve,   *)
(* the cache, after the insert of a miss, holds an entry under the key     *)
(* the lookup recomputes from path, and that key is the request's          *)
(* path_key; so every answered request finds its entry.                    *)
(***************************************************************************)
CacheAtServe(c) ==
    IF frame[c].cache_hit
    THEN processed_cache[c]
    ELSE CacheInsert(processed_cache[c], frame[c].path_key,
                     Transformed(frame[c]).compressed_file)

C18_FinalLookupSucceeds ==
    \A c \in Conns :
        /\ pc[c] = "loaded" =>
               /\ to_string_lossy(frame[c].path) = frame[c].path_key
               /\ ServedContent(CacheAtServe(c), frame[c].path,
                                frame[c].file_contents).ok
        /\ Answered(c) =>
               /\ last[c].frame.path_key \in DOMAIN processed_cache[c]
               /\ last[c].response.status = StatusOK =>
                      last[c].response.body =
                          processed_cache[c][last[c].frame.path_key]

\* a miss has been answered from the entry it inserted itself
C18_Witness ==
    \E c \in Conns :
        /\ Answered(c)
        /\ ~last[c].frame.cache_hit
        /\ last[c].frame.path_key \in DOMAIN processed_cache[c]
        /\ processed_cache[c][last[c].frame.path_key]
               = last[c].frame.compressed_file

=============================================================================
